---- MODULE Spec2Model ----
(***************************************************************************)
(* Capture lifecycle and streaming bridge of ExcitingSystems/to-the-edge.   *)
(*                                                                         *)
(* Two acquisition scripts share one control flow:                         *)
(*   LocalScripts/EdgeRL_DataAcquisition.py   (zip + struct.pack)          *)
(*   testbench/route_testbench_data.py        (numpy transpose + tobytes)  *)
(* Each creates an MAPort and a Capture, starts the capture, waits until   *)
(* the capture is running, fetches incrementally until it is finished,     *)
(* sends every row over data_socket and disposes both objects in a         *)
(* finally block.  The platform (capture state, sample production) and     *)
(* the faults of the vendor API and of the socket are the environment.     *)
(***************************************************************************)
EXTENDS Integers, Sequences, FiniteSets, TLC

(***************************************************************************)
(* Program constants                                                       *)
(***************************************************************************)
BUFFER_SIZE == 988

\* the 1024 of the comment on BUFFER_SIZE: the size the buffer is cut down from
BufferLimit == 1024

NumChannels == 4

Channels == 1..NumChannels

EdgeRL == "EdgeRL_DataAcquisition"

Route == "route_testbench_data"

Scripts == {EdgeRL, Route}

(***************************************************************************)
(* Bounds of the model                                                     *)
(***************************************************************************)
MaxSamples == 2

MaxReads == 5

MaxFetches == 2

MaxPayload == 6

MaxUnit == 4
MaxBatch == 62
MaxShort == 1

VARIABLES
  script,            \* which of the two scripts runs
  pc,                \* position of the script
  DemoCapture,       \* "None" or "object"
  DemoMAPort,        \* "None" or "object"
  data_socket,       \* "unconnected", "connected" or "closed"
  weights_socket,    \* "unconnected" or "closed"
  started,           \* DemoCapture.Start has been called
  captureState,      \* platform side: DemoCapture.State
  produced,          \* platform side: sample ticks produced so far
  fetchedUpTo,       \* platform side: per channel, last tick handed out by Fetch
  DemoCaptureResult, \* result of the last Fetch: channel -> new values
  rows,              \* rows of the current batch not yet sent
  capture_count,     \* loop iterations completed
  sent,              \* byte slices accepted by data_socket.send, in order
  raised,            \* exception in flight ("None" when there is none)
  raisedAt,          \* position at which it was raised
  logged,            \* the except clause has printed the vendor descriptions
  captureDisposeCalls,
  maportDisposeCalls,
  stateReads,        \* history: values returned by DemoCapture.State
  fetchLog,          \* history: one entry per Fetch call
  sentBefore,        \* history: number of slices sent when the last Fetch returned
  raggedSeen,        \* history: some Fetch returned channels of differing lengths
  rerun,             \* TRUE once the finally block is being executed a second time
  send_returns,      \* history: the value returned by each data_socket.send (unused by the script)
  payload,           \* transmitter on its own: byte string handed to the chunk code
  max_unit,          \* the value of BUFFER_SIZE in force
  chunks             \* transmitter on its own: [done, slices passed to send]

vars == <<script, pc, DemoCapture, DemoMAPort, data_socket, weights_socket,
          started, captureState, produced, fetchedUpTo, DemoCaptureResult,
          rows, capture_count, sent, raised, raisedAt, logged,
          captureDisposeCalls, maportDisposeCalls, stateReads, fetchLog,
          sentBefore, raggedSeen, rerun, send_returns, payload, max_unit, chunks>>

sessionVars == <<script, pc, DemoCapture, DemoMAPort, data_socket, weights_socket,
          started, captureState, produced, fetchedUpTo, DemoCaptureResult,
          rows, capture_count, sent, raised, raisedAt, logged,
          captureDisposeCalls, maportDisposeCalls, stateReads, fetchLog,
          sentBefore, raggedSeen, rerun, send_returns>>

chunkVars == <<payload, max_unit, chunks>>

(***************************************************************************)
(* Helpers on sequences                                                    *)
(***************************************************************************)
RECURSIVE Flatten(_)
Flatten(ss) == IF ss = <<>> THEN <<>> ELSE Head(ss) \o Flatten(Tail(ss))

Pow2(n) == 2 ^ n

RECURSIVE FloorLog2(_)
FloorLog2(a) == IF a < 2 THEN 0 ELSE 1 + FloorLog2(a \div 2)

Min(S) == CHOOSE x \in S : \A y \in S : x <= y

Abs(n) == IF n < 0 THEN -n ELSE n

(***************************************************************************)
(* struct.pack('f', val): IEEE-754 single precision, native (little-endian)*)
(* byte order.  The model's sample values are integers of magnitude below  *)
(* 2^24, which single precision represents exactly.                        *)
(***************************************************************************)
\* variant: the four bytes in big-endian order (struct.pack('>f', val))
pack_f_bigendian(val) ==
  LET sign == IF val < 0 THEN 1 ELSE 0
      a    == Abs(val)
      e    == FloorLog2(a)
      E    == IF a = 0 THEN 0 ELSE e + 127
      mant == IF a = 0 THEN 0 ELSE (a - Pow2(e)) * Pow2(23 - e)
  IN  << sign * 128 + (E \div 2),
         (E % 2) * 128 + (mant \div 65536),
         (mant \div 256) % 256,
         mant % 256 >>

pack_f(val) ==
  LET sign == IF val < 0 THEN 1 ELSE 0
      a    == Abs(val)
      e    == FloorLog2(a)
      E    == IF a = 0 THEN 0 ELSE e + 127
      mant == IF a = 0 THEN 0 ELSE (a - Pow2(e)) * Pow2(23 - e)
  IN  << mant % 256,
         (mant \div 256) % 256,
         (E % 2) * 128 + (mant \div 65536),
         sign * 128 + (E \div 2) >>

\* b.join(struct.pack('f', val) for val in date)
join_pack(date) == Flatten([j \in 1..Len(date) |-> pack_f(date[j])])

\* row.tobytes() of a float32 row
tobytes(row) == Flatten([j \in 1..Len(row) |-> pack_f(row[j])])

(***************************************************************************)
(* The chunked send: the slices passed to data_socket.send for one byte    *)
(* string b, in order.                                                     *)
(***************************************************************************)
ChunkSends(b, M) ==
  IF Len(b) <= M
  THEN << b >>
  ELSE LET n    == Len(b) \div M
           full == [k \in 1..n |-> SubSeq(b, (k - 1) * M + 1, k * M)]
           i    == n - 1
       IN  IF Len(b) > (i + 1) * M
           THEN Append(full, SubSeq(b, (i + 1) * M + 1, Len(b)))
           ELSE full

(***************************************************************************)
(* Row assembly                                                            *)
(***************************************************************************)
BatchLengths(batch) == {Len(batch[c]) : c \in Channels}

\* variant: the value lists zipped in the reverse of the configured order
ZipRows_reversed(batch) ==
  [k \in 1..Min(BatchLengths(batch)) |-> [c \in Channels |-> batch[NumChannels + 1 - c][k]]]

\* zip(currentIdValues, currentIqValues, trajectoryIdxValue, trajectoryResetValue)
ZipRows(batch) ==
  [k \in 1..Min(BatchLengths(batch)) |-> [c \in Channels |-> batch[c][k]]]

\* np.array([...one list per channel...], dtype=np.float32) raises ValueError
\* when the lists do not form a rectangle
np_array_raises(batch) == Cardinality(BatchLengths(batch)) > 1

\* variant: the rows of the transposed array in reverse sample order
TransposeRows_flipped(batch) ==
  [k \in 1..Len(batch[1]) |-> [c \in Channels |-> batch[c][Len(batch[1]) + 1 - k]]]

\* np.array([...one list per channel...], dtype=np.float32).T
TransposeRows(batch) ==
  [k \in 1..Len(batch[1]) |-> [c \in Channels |-> batch[c][k]]]

\* the value the platform records for channel c at tick k
SampleValue(c, k) == (k - 1) * NumChannels + c - 2


(***************************************************************************)
(* Exceptions.  A TestbenchPortException raised inside the try block goes  *)
(* through the except clause; any other exception goes straight to the     *)
(* finally block.                                                          *)
(***************************************************************************)
TPE == "TestbenchPortException"

Raise(kind, at) ==
  /\ raised' = kind
  /\ raisedAt' = at
  /\ pc' = IF kind = TPE THEN "except" ELSE "finally_capture"

LogRead(v) == IF Len(stateReads) < MaxReads THEN Append(stateReads, v) ELSE stateReads

LastRead == IF stateReads = <<>> THEN "none" ELSE stateReads[Len(stateReads)]

LogFetch(batch) ==
  IF Len(fetchLog) < MaxFetches
  THEN Append(fetchLog, [after    |-> LastRead,
                         socket   |-> data_socket,
                         nonempty |-> \E c \in Channels : batch[c] # <<>>])
  ELSE fetchLog

EmptyBatch == [c \in Channels |-> <<>>]

(***************************************************************************)
(* Init: the module level of the script has run (both sockets created,     *)
(* DemoCapture = DemoMAPort = None), the try block is about to start.      *)
(***************************************************************************)
SessionInit ==
  /\ pc = "create_maport"
  /\ DemoCapture = "None"
  /\ DemoMAPort = "None"
  /\ data_socket = "unconnected"
  /\ weights_socket = "unconnected"
  /\ started = FALSE
  /\ captureState = "Idle"
  /\ produced = 0
  /\ fetchedUpTo = [c \in Channels |-> 0]
  /\ DemoCaptureResult = EmptyBatch
  /\ rows = <<>>
  /\ capture_count = 0
  /\ sent = <<>>
  /\ raised = "None"
  /\ raisedAt = "none"
  /\ logged = FALSE
  /\ captureDisposeCalls = 0
  /\ maportDisposeCalls = 0
  /\ stateReads = <<>>
  /\ fetchLog = <<>>
  /\ sentBefore = 0
  /\ raggedSeen = FALSE
  /\ rerun = FALSE
  /\ send_returns = <<>>

ChunkIdle ==
  /\ payload = <<>>
  /\ max_unit = BUFFER_SIZE
  /\ chunks = [done |-> FALSE, slices |-> <<>>]

Init ==
  /\ script \in Scripts
  /\ SessionInit
  /\ ChunkIdle

(***************************************************************************)
(* Setup                                                                   *)
(***************************************************************************)
\* TestbenchFactory() ... DemoMAPort = MyMAPortFactory.CreateMAPort("DemoMAPort")
CreateMAPort ==
  /\ pc = "create_maport"
  /\ \/ /\ DemoMAPort' = "object"
        /\ pc' = "configure_maport"
        /\ UNCHANGED <<raised, raisedAt>>
     \/ /\ Raise(TPE, "create_maport")
        /\ UNCHANGED DemoMAPort
  /\ UNCHANGED <<script, DemoCapture, data_socket, weights_socket, started,
                 captureState, produced, fetchedUpTo, DemoCaptureResult, rows,
                 capture_count, sent, logged, captureDisposeCalls,
                 maportDisposeCalls, stateReads, fetchLog, sentBefore, raggedSeen, rerun, send_returns, chunkVars>>

\* LoadConfiguration, Configure, StartSimulation
ConfigureMAPort ==
  /\ pc = "configure_maport"
  /\ \/ /\ pc' = "create_capture"
        /\ UNCHANGED <<raised, raisedAt>>
     \/ Raise(TPE, "configure_maport")
  /\ UNCHANGED <<script, DemoCapture, DemoMAPort, data_socket, weights_socket,
                 started, captureState, produced, fetchedUpTo, DemoCaptureResult,
                 rows, capture_count, sent, logged, captureDisposeCalls,
                 maportDisposeCalls, stateReads, fetchLog, sentBefore, raggedSeen, rerun, send_returns, chunkVars>>

\* DemoCapture = DemoMAPort.CreateCapture(masterTask)
CreateCapture ==
  /\ pc = "create_capture"
  /\ \/ /\ DemoCapture' = "object"
        /\ pc' = "configure_capture"
        /\ UNCHANGED <<raised, raisedAt>>
     \/ /\ Raise(TPE, "create_capture")
        /\ UNCHANGED DemoCapture
  /\ UNCHANGED <<script, DemoMAPort, data_socket, weights_socket, started,
                 captureState, produced, fetchedUpTo, DemoCaptureResult, rows,
                 capture_count, sent, logged, captureDisposeCalls,
                 maportDisposeCalls, stateReads, fetchLog, sentBefore, raggedSeen, rerun, send_returns, chunkVars>>

\* Variables, Downsampling, SetStartTrigger, SetStopTrigger, writer, result
ConfigureCapture ==
  /\ pc = "configure_capture"
  /\ \/ /\ pc' = "start"
        /\ UNCHANGED <<raised, raisedAt>>
     \/ Raise(TPE, "configure_capture")
  /\ UNCHANGED <<script, DemoCapture, DemoMAPort, data_socket, weights_socket,
                 started, captureState, produced, fetchedUpTo, DemoCaptureResult,
                 rows, capture_count, sent, logged, captureDisposeCalls,
                 maportDisposeCalls, stateReads, fetchLog, sentBefore, raggedSeen, rerun, send_returns, chunkVars>>

\* DemoCapture.Start(DemoCaptureWriter)
StartCapture ==
  /\ pc = "start"
  /\ \/ /\ started' = TRUE
        /\ pc' = "connect"
        /\ UNCHANGED <<raised, raisedAt>>
     \/ /\ Raise(TPE, "start")
        /\ UNCHANGED started
  /\ UNCHANGED <<script, DemoCapture, DemoMAPort, data_socket, weights_socket,
                 captureState, produced, fetchedUpTo, DemoCaptureResult, rows,
                 capture_count, sent, logged, captureDisposeCalls,
                 maportDisposeCalls, stateReads, fetchLog, sentBefore, raggedSeen, rerun, send_returns, chunkVars>>

\* data_socket.connect((TCP_IP, TCP_PORT_DATA)); time.sleep(2.0)
\* In route_testbench_data.py the connect line is commented out.
Connect ==
  /\ pc = "connect"
  /\ \/ /\ script = EdgeRL
        /\ data_socket' = "connected"
        /\ pc' = "wait_running"
        /\ UNCHANGED <<raised, raisedAt>>
     \/ /\ script = EdgeRL
        /\ Raise("OSError", "connect")
        /\ UNCHANGED data_socket
     \/ /\ script = Route
        /\ pc' = "wait_running"
        /\ UNCHANGED <<data_socket, raised, raisedAt>>
  /\ UNCHANGED <<script, DemoCapture, DemoMAPort, weights_socket, started,
                 captureState, produced, fetchedUpTo, DemoCaptureResult, rows,
                 capture_count, sent, logged, captureDisposeCalls,
                 maportDisposeCalls, stateReads, fetchLog, sentBefore, raggedSeen, rerun, send_returns, chunkVars>>


(***************************************************************************)
(* The two polling loops                                                   *)
(***************************************************************************)
\* variant: the wait loop is left after one read, whatever the state
WaitRunning_noWait ==
  /\ pc = "wait_running"
  /\ stateReads' = IF captureState = LastRead THEN stateReads
                                               ELSE LogRead(captureState)
  /\ pc' = "poll"
  /\ UNCHANGED <<script, DemoCapture, DemoMAPort, data_socket, weights_socket,
                 started, captureState, produced, fetchedUpTo, DemoCaptureResult,
                 rows, capture_count, sent, raised, raisedAt, logged,
                 captureDisposeCalls, maportDisposeCalls, fetchLog, sentBefore,
                 raggedSeen, rerun, send_returns, chunkVars>>

\* while DemoCapture.State != CaptureState.eRUNNING: time.sleep(0.02)
\* capture_count = 0
\* (the history keeps one entry for a run of equal reads of this loop: a
\* repeated read changes nothing but the time slept)
WaitRunning ==
  /\ pc = "wait_running"
  /\ \/ /\ stateReads' = IF captureState = LastRead THEN stateReads
                                                     ELSE LogRead(captureState)
        /\ pc' = IF captureState # "Running" THEN "wait_running" ELSE "poll"
        /\ UNCHANGED <<raised, raisedAt>>
     \/ /\ Raise(TPE, "wait_running")
        /\ UNCHANGED stateReads
  /\ UNCHANGED <<script, DemoCapture, DemoMAPort, data_socket, weights_socket,
                 started, captureState, produced, fetchedUpTo, DemoCaptureResult,
                 rows, capture_count, sent, logged, captureDisposeCalls,
                 maportDisposeCalls, fetchLog, sentBefore, raggedSeen, rerun, send_returns, chunkVars>>

\* while DemoCapture.State != CaptureState.eFINISHED:
Poll ==
  /\ pc = "poll"
  /\ \/ /\ stateReads' = LogRead(captureState)
        /\ pc' = IF captureState # "Finished" THEN "fetch" ELSE "close"
        /\ UNCHANGED <<raised, raisedAt>>
     \/ /\ Raise(TPE, "poll")
        /\ UNCHANGED stateReads
  /\ UNCHANGED <<script, DemoCapture, DemoMAPort, data_socket, weights_socket,
                 started, captureState, produced, fetchedUpTo, DemoCaptureResult,
                 rows, capture_count, sent, logged, captureDisposeCalls,
                 maportDisposeCalls, fetchLog, sentBefore, raggedSeen, rerun, send_returns, chunkVars>>

\* What Fetch(False) may hand out: per channel the ticks not yet handed out,
\* up to the last tick produced; one channel may lag one tick behind the
\* others (the sample counts of the applications of a multiprocessor
\* platform may differ).
Available == {up \in [Channels -> 0..produced] :
                 /\ \A c \in Channels : /\ up[c] >= fetchedUpTo[c]
                                        /\ up[c] >= produced - 1
                 /\ Cardinality({c \in Channels : up[c] < produced}) <= 1}

FetchResult(up) ==
  [c \in Channels |->
     [k \in 1..(up[c] - fetchedUpTo[c]) |-> SampleValue(c, fetchedUpTo[c] + k)]]

\* DemoCaptureResult = DemoCapture.Fetch(False)
Fetch ==
  /\ pc = "fetch"
  /\ \/ \E up \in Available :
           /\ DemoCaptureResult' = FetchResult(up)
           /\ fetchedUpTo' = up
           /\ fetchLog' = LogFetch(FetchResult(up))
           /\ sentBefore' = Len(sent)
           /\ raggedSeen' = (raggedSeen \/ np_array_raises(FetchResult(up)))
           /\ pc' = "extract"
           /\ UNCHANGED <<raised, raisedAt>>
     \/ /\ Raise(TPE, "fetch")
        /\ UNCHANGED <<DemoCaptureResult, fetchedUpTo, fetchLog, sentBefore, raggedSeen>>
  /\ UNCHANGED <<script, DemoCapture, DemoMAPort, data_socket, weights_socket,
                 started, captureState, produced, rows, capture_count, sent,
                 logged, captureDisposeCalls, maportDisposeCalls, stateReads,
                 rerun, send_returns, chunkVars>>

\* variant: channels of differing lengths are rejected in both scripts
AssemblyRaises_strict(batch) == np_array_raises(batch)

\* row assembly fails
AssemblyRaises(batch) == script = Route /\ np_array_raises(batch)

\* the rows the script iterates over
AssembleRows(batch) == IF script = EdgeRL THEN ZipRows(batch) ELSE TransposeRows(batch)

\* variant: an empty batch is fetched again within the same iteration
Extract_retryEmpty ==
  /\ pc = "extract"
  /\ \/ /\ ~AssemblyRaises(DemoCaptureResult)
        /\ rows' = AssembleRows(DemoCaptureResult)
        /\ pc' = IF DemoCaptureResult = EmptyBatch THEN "fetch" ELSE "send"
        /\ UNCHANGED <<raised, raisedAt>>
     \/ /\ AssemblyRaises(DemoCaptureResult)
        /\ Raise("ValueError", "extract")
        /\ UNCHANGED rows
     \/ /\ Raise(TPE, "extract")
        /\ UNCHANGED rows
  /\ UNCHANGED <<script, DemoCapture, DemoMAPort, data_socket, weights_socket,
                 started, captureState, produced, fetchedUpTo, DemoCaptureResult,
                 capture_count, sent, logged, captureDisposeCalls,
                 maportDisposeCalls, stateReads, fetchLog, sentBefore, raggedSeen, rerun, send_returns, chunkVars>>

\* ExtractSignalValue / convertIBaseValue per channel, then zip(...) in
\* EdgeRL_DataAcquisition.py and np.array(...).T in route_testbench_data.py
Extract ==
  /\ pc = "extract"
  /\ \/ /\ ~AssemblyRaises(DemoCaptureResult)
        /\ rows' = AssembleRows(DemoCaptureResult)
        /\ pc' = "send"
        /\ UNCHANGED <<raised, raisedAt>>
     \/ /\ AssemblyRaises(DemoCaptureResult)
        /\ Raise("ValueError", "extract")
        /\ UNCHANGED rows
     \/ /\ Raise(TPE, "extract")
        /\ UNCHANGED rows
  /\ UNCHANGED <<script, DemoCapture, DemoMAPort, data_socket, weights_socket,
                 started, captureState, produced, fetchedUpTo, DemoCaptureResult,
                 capture_count, sent, logged, captureDisposeCalls,
                 maportDisposeCalls, stateReads, fetchLog, sentBefore, raggedSeen, rerun, send_returns, chunkVars>>

\* the bytes of one row
EncodeRow(row) == IF script = EdgeRL THEN join_pack(row) ELSE tobytes(row)

\* len(b) // BUFFER_SIZE divides by zero when the else branch of the send
\* code is taken with a BUFFER_SIZE of 0
chunk_raises(b, M) == Len(b) > M /\ M = 0

\* the slices passed to data_socket.send for one row
RowSends(row) == ChunkSends(EncodeRow(row), max_unit)

\* socket.send returns the number of bytes the transport took, which may be
\* less than the number offered; the script does not look at the value.
\* A short return is modelled as half of the slice, at most MaxShort times.
ShortReturn(n) == n \div 2

ShortWrites == Cardinality({i \in DOMAIN send_returns : send_returns[i] < Len(sent[i])})

Returns(slices) ==
  LET full == [i \in DOMAIN slices |-> Len(slices[i])]
  IN  {full} \cup
      (IF ShortWrites < MaxShort
       THEN {[full EXCEPT ![i] = ShortReturn(full[i])] :
                i \in {j \in DOMAIN slices : ShortReturn(full[j]) >= 1}}
       ELSE {})

\* variant: a failed send is noted and the loop goes on with the next row
SendRow_keepsSending ==
  /\ pc = "send"
  /\ rows # <<>>
  /\ IF chunk_raises(EncodeRow(Head(rows)), max_unit)
     THEN /\ Raise("ZeroDivisionError", "send")
          /\ UNCHANGED <<sent, rows, send_returns>>
     ELSE LET slices == RowSends(Head(rows))
          IN  \/ /\ data_socket = "connected"
                 /\ sent' = sent \o slices
                 /\ \E r \in Returns(slices) : send_returns' = send_returns \o r
                 /\ rows' = Tail(rows)
                 /\ pc' = "send"
                 /\ UNCHANGED <<raised, raisedAt>>
              \/ \E k \in 0..(Len(slices) - 1) :
                    /\ data_socket # "connected" => k = 0
                    /\ sent' = sent \o SubSeq(slices, 1, k)
                    /\ \E r \in Returns(SubSeq(slices, 1, k)) :
                          send_returns' = send_returns \o r
                    /\ raised' = "OSError"
                    /\ raisedAt' = "send"
                    /\ rows' = Tail(rows)
                    /\ pc' = "send"
  /\ UNCHANGED <<script, DemoCapture, DemoMAPort, data_socket, weights_socket,
                 started, captureState, produced, fetchedUpTo, DemoCaptureResult,
                 capture_count, logged, captureDisposeCalls,
                 maportDisposeCalls, stateReads, fetchLog, sentBefore, raggedSeen, rerun, chunkVars>>

\* variant: the rows of the batch are joined and sent as one byte string
SendRow_wholeBatch ==
  /\ pc = "send"
  /\ rows # <<>>
  /\ IF chunk_raises(EncodeRow(Head(rows)), max_unit)
     THEN /\ Raise("ZeroDivisionError", "send")
          /\ UNCHANGED <<sent, rows, send_returns>>
     ELSE LET slices == ChunkSends(Flatten([k \in 1..Len(rows) |-> EncodeRow(rows[k])]),
                                   max_unit)
          IN  \/ /\ data_socket = "connected"
                 /\ sent' = sent \o slices
                 /\ \E r \in Returns(slices) : send_returns' = send_returns \o r
                 /\ rows' = <<>>
                 /\ pc' = "send"
                 /\ UNCHANGED <<raised, raisedAt>>
              \/ \E k \in 0..(Len(slices) - 1) :
                    /\ data_socket # "connected" => k = 0
                    /\ sent' = sent \o SubSeq(slices, 1, k)
                    /\ \E r \in Returns(SubSeq(slices, 1, k)) :
                          send_returns' = send_returns \o r
                    /\ Raise("OSError", "send")
                    /\ UNCHANGED rows
  /\ UNCHANGED <<script, DemoCapture, DemoMAPort, data_socket, weights_socket,
                 started, captureState, produced, fetchedUpTo, DemoCaptureResult,
                 capture_count, logged, captureDisposeCalls,
                 maportDisposeCalls, stateReads, fetchLog, sentBefore, raggedSeen, rerun, chunkVars>>

\* One pass of the body of the for loop over the rows: encode the row and
\* send it in slices of at most BUFFER_SIZE bytes (max_unit holds the value
\* of BUFFER_SIZE in force).  A send on a socket that is not connected raises
\* OSError; a send on a connected socket is accepted or raises OSError
\* (connection lost).  k slices are accepted before the one that raises.
SendRow ==
  /\ pc = "send"
  /\ rows # <<>>
  /\ IF chunk_raises(EncodeRow(Head(rows)), max_unit)
     THEN /\ Raise("ZeroDivisionError", "send")
          /\ UNCHANGED <<sent, rows, send_returns>>
     ELSE LET slices == RowSends(Head(rows))
          IN  \/ /\ data_socket = "connected"
                 /\ sent' = sent \o slices
                 /\ \E r \in Returns(slices) : send_returns' = send_returns \o r
                 /\ rows' = Tail(rows)
                 /\ pc' = "send"
                 /\ UNCHANGED <<raised, raisedAt>>
              \/ \E k \in 0..(Len(slices) - 1) :
                    /\ data_socket # "connected" => k = 0
                    /\ sent' = sent \o SubSeq(slices, 1, k)
                    /\ \E r \in Returns(SubSeq(slices, 1, k)) :
                          send_returns' = send_returns \o r
                    /\ Raise("OSError", "send")
                    /\ UNCHANGED rows
  /\ UNCHANGED <<script, DemoCapture, DemoMAPort, data_socket, weights_socket,
                 started, captureState, produced, fetchedUpTo, DemoCaptureResult,
                 capture_count, logged, captureDisposeCalls,
                 maportDisposeCalls, stateReads, fetchLog, sentBefore, raggedSeen, rerun, chunkVars>>

\* variant: the loop body is left for the next poll with rows still unsent
EndIteration_early ==
  /\ pc = "send"
  /\ capture_count' = IF capture_count < MaxFetches THEN capture_count + 1 ELSE capture_count
  /\ pc' = "poll"
  /\ UNCHANGED <<script, DemoCapture, DemoMAPort, data_socket, weights_socket,
                 started, captureState, produced, fetchedUpTo, DemoCaptureResult,
                 rows, sent, raised, raisedAt, logged, captureDisposeCalls,
                 maportDisposeCalls, stateReads, fetchLog, sentBefore, raggedSeen, rerun, send_returns, chunkVars>>

\* capture_count += 1 (the count saturates at MaxFetches in the model)
EndIteration ==
  /\ pc = "send"
  /\ rows = <<>>
  /\ capture_count' = IF capture_count < MaxFetches THEN capture_count + 1 ELSE capture_count
  /\ pc' = "poll"
  /\ UNCHANGED <<script, DemoCapture, DemoMAPort, data_socket, weights_socket,
                 started, captureState, produced, fetchedUpTo, DemoCaptureResult,
                 rows, sent, raised, raisedAt, logged, captureDisposeCalls,
                 maportDisposeCalls, stateReads, fetchLog, sentBefore, raggedSeen, rerun, send_returns, chunkVars>>

\* data_socket.close(); weights_socket.close(); print("Capturing finished.")
CloseSockets ==
  /\ pc = "close"
  /\ data_socket' = "closed"
  /\ weights_socket' = "closed"
  /\ pc' = "finally_capture"
  /\ UNCHANGED <<script, DemoCapture, DemoMAPort, started, captureState,
                 produced, fetchedUpTo, DemoCaptureResult, rows, capture_count,
                 sent, raised, raisedAt, logged, captureDisposeCalls,
                 maportDisposeCalls, stateReads, fetchLog, sentBefore, raggedSeen, rerun, send_returns, chunkVars>>

(***************************************************************************)
(* except TestbenchPortException / finally                                 *)
(***************************************************************************)
\* variant: the except clause prints and does not re-raise
ExceptHandler_swallow ==
  /\ pc = "except"
  /\ logged' = TRUE
  /\ raised' = "None"
  /\ pc' = "finally_capture"
  /\ UNCHANGED <<script, DemoCapture, DemoMAPort, data_socket, weights_socket,
                 started, captureState, produced, fetchedUpTo, DemoCaptureResult,
                 rows, capture_count, sent, raisedAt,
                 captureDisposeCalls, maportDisposeCalls, stateReads, fetchLog,
                 sentBefore, raggedSeen, rerun, send_returns, chunkVars>>

\* print CodeDescription, VendorCodeDescription; raise
ExceptHandler ==
  /\ pc = "except"
  /\ logged' = TRUE
  /\ pc' = "finally_capture"
  /\ UNCHANGED <<script, DemoCapture, DemoMAPort, data_socket, weights_socket,
                 started, captureState, produced, fetchedUpTo, DemoCaptureResult,
                 rows, capture_count, sent, raised, raisedAt,
                 captureDisposeCalls, maportDisposeCalls, stateReads, fetchLog,
                 sentBefore, raggedSeen, rerun, send_returns, chunkVars>>

\* variant: the finally block does not dispose the capture
FinallyCapture_skipped ==
  /\ pc = "finally_capture"
  /\ pc' = "finally_maport"
  /\ UNCHANGED <<script, DemoCapture, DemoMAPort, data_socket, weights_socket,
                 started, captureState, produced, fetchedUpTo, DemoCaptureResult,
                 rows, capture_count, sent, raised, raisedAt, logged,
                 captureDisposeCalls, maportDisposeCalls, stateReads, fetchLog,
                 sentBefore, raggedSeen, rerun, send_returns, chunkVars>>

\* variant: the disposed capture is not reset to None
FinallyCapture_noReset ==
  /\ pc = "finally_capture"
  /\ \/ /\ DemoCapture = "None"
        /\ pc' = "finally_maport"
        /\ UNCHANGED <<DemoCapture, captureDisposeCalls, raised, raisedAt>>
     \/ /\ DemoCapture # "None"
        /\ captureDisposeCalls' = captureDisposeCalls + 1
        /\ pc' = "finally_maport"
        /\ UNCHANGED <<DemoCapture, raised, raisedAt>>
     \/ /\ DemoCapture # "None"
        /\ captureDisposeCalls' = captureDisposeCalls + 1
        /\ raised' = TPE
        /\ raisedAt' = "finally_capture"
        /\ pc' = "done"
        /\ UNCHANGED DemoCapture
  /\ UNCHANGED <<script, DemoMAPort, data_socket, weights_socket, started,
                 captureState, produced, fetchedUpTo, DemoCaptureResult, rows,
                 capture_count, sent, logged, maportDisposeCalls, stateReads,
                 fetchLog, sentBefore, raggedSeen, rerun, send_returns, chunkVars>>

\* if DemoCapture != None: DemoCapture.Dispose(); DemoCapture = None
\* A Dispose that raises leaves the finally block at once.
FinallyCapture ==
  /\ pc = "finally_capture"
  /\ \/ /\ DemoCapture = "None"
        /\ pc' = "finally_maport"
        /\ UNCHANGED <<DemoCapture, captureDisposeCalls, raised, raisedAt>>
     \/ /\ DemoCapture # "None"
        /\ captureDisposeCalls' = captureDisposeCalls + 1
        /\ DemoCapture' = "None"
        /\ pc' = "finally_maport"
        /\ UNCHANGED <<raised, raisedAt>>
     \/ /\ DemoCapture # "None"
        /\ captureDisposeCalls' = captureDisposeCalls + 1
        /\ raised' = TPE
        /\ raisedAt' = "finally_capture"
        /\ pc' = "done"
        /\ UNCHANGED DemoCapture
  /\ UNCHANGED <<script, DemoMAPort, data_socket, weights_socket, started,
                 captureState, produced, fetchedUpTo, DemoCaptureResult, rows,
                 capture_count, sent, logged, maportDisposeCalls, stateReads,
                 fetchLog, sentBefore, raggedSeen, rerun, send_returns, chunkVars>>

\* if DemoMAPort != None: DemoMAPort.Dispose(); DemoMAPort = None
FinallyMAPort ==
  /\ pc = "finally_maport"
  /\ \/ /\ DemoMAPort = "None"
        /\ UNCHANGED <<DemoMAPort, maportDisposeCalls, raised, raisedAt>>
     \/ /\ DemoMAPort # "None"
        /\ maportDisposeCalls' = maportDisposeCalls + 1
        /\ DemoMAPort' = "None"
        /\ UNCHANGED <<raised, raisedAt>>
     \/ /\ DemoMAPort # "None"
        /\ maportDisposeCalls' = maportDisposeCalls + 1
        /\ raised' = TPE
        /\ raisedAt' = "finally_maport"
        /\ UNCHANGED DemoMAPort
  /\ pc' = "done"
  /\ UNCHANGED <<script, DemoCapture, data_socket, weights_socket, started,
                 captureState, produced, fetchedUpTo, DemoCaptureResult, rows,
                 capture_count, sent, logged, captureDisposeCalls, stateReads,
                 fetchLog, sentBefore, raggedSeen, rerun, send_returns, chunkVars>>

(***************************************************************************)
(* The platform.  It is followed while the script can still observe it,    *)
(* that is until the script leaves the polling loops.                      *)
(***************************************************************************)
Observing == pc \in {"connect", "wait_running", "poll", "fetch", "extract", "send"}

PlatformUnchanged ==
  UNCHANGED <<script, pc, DemoCapture, DemoMAPort, data_socket, weights_socket,
              started, fetchedUpTo, DemoCaptureResult, rows, capture_count,
              sent, raised, raisedAt, logged, captureDisposeCalls,
              maportDisposeCalls, stateReads, fetchLog, sentBefore, raggedSeen, rerun, send_returns, chunkVars>>

\* the started capture is activated and waits for its start trigger
PlatformArm ==
  /\ Observing
  /\ started
  /\ captureState = "Idle"
  /\ captureState' = "Armed"
  /\ UNCHANGED produced
  /\ PlatformUnchanged

\* posedge(CaptureTrigger, 0.5)
PlatformTrigger ==
  /\ Observing
  /\ captureState = "Armed"
  /\ captureState' = "Running"
  /\ UNCHANGED produced
  /\ PlatformUnchanged

\* one sample tick of the captured task
PlatformSample ==
  /\ Observing
  /\ captureState = "Running"
  /\ produced < MaxSamples
  /\ produced' = produced + 1
  /\ UNCHANGED captureState
  /\ PlatformUnchanged

\* negedge(CaptureTrigger, 0.5)
PlatformStop ==
  /\ Observing
  /\ captureState = "Running"
  /\ captureState' = "Finished"
  /\ UNCHANGED produced
  /\ PlatformUnchanged

Next ==
  \/ CreateMAPort
  \/ ConfigureMAPort
  \/ CreateCapture
  \/ ConfigureCapture
  \/ StartCapture
  \/ Connect
  \/ WaitRunning
  \/ Poll
  \/ Fetch
  \/ Extract
  \/ SendRow
  \/ EndIteration
  \/ CloseSockets
  \/ ExceptHandler
  \/ FinallyCapture
  \/ FinallyMAPort
  \/ PlatformArm
  \/ PlatformTrigger
  \/ PlatformSample
  \/ PlatformStop

Spec == Init /\ [][Next]_vars

(***************************************************************************)
(* The session under fair scheduling: the interpreter goes on executing    *)
(* the script, every call returning or raising.  A fault of the platform   *)
(* (TestbenchPortException) may happen at any call but is never bound to   *)
(* happen.  A pass of the wait loop that reads the state it read before    *)
(* changes nothing.                                                        *)
(***************************************************************************)
ScriptStep ==
  \/ CreateMAPort
  \/ ConfigureMAPort
  \/ CreateCapture
  \/ ConfigureCapture
  \/ StartCapture
  \/ Connect
  \/ WaitRunning
  \/ Poll
  \/ Fetch
  \/ Extract
  \/ SendRow
  \/ EndIteration
  \/ CloseSockets
  \/ ExceptHandler
  \/ FinallyCapture
  \/ FinallyMAPort

Progress == ScriptStep /\ (raised' = TPE => raised = TPE)

LiveSpec == Init /\ [][Next]_vars /\ WF_vars(Progress)

(***************************************************************************)
(* The finally block executed a second time after the program has ended:   *)
(* the same two statements, entered again with the variables as the first  *)
(* execution left them.                                                    *)
(***************************************************************************)
RunTeardownAgain ==
  /\ pc = "done"
  /\ ~rerun
  /\ rerun' = TRUE
  /\ pc' = "finally_capture"
  /\ UNCHANGED <<script, DemoCapture, DemoMAPort, data_socket, weights_socket,
                 started, captureState, produced, fetchedUpTo, DemoCaptureResult,
                 rows, capture_count, sent, raised, raisedAt, logged,
                 captureDisposeCalls, maportDisposeCalls, stateReads, fetchLog,
                 sentBefore, raggedSeen, send_returns, chunkVars>>

TeardownNext ==
  \/ Next
  \/ RunTeardownAgain

TeardownSpec == Init /\ [][TeardownNext]_vars

(***************************************************************************)
(* The session with BUFFER_SIZE set to 0 at the head of the script.        *)
(***************************************************************************)
ZeroInit ==
  /\ script \in Scripts
  /\ SessionInit
  /\ payload = <<>>
  /\ max_unit = 0
  /\ chunks = [done |-> FALSE, slices |-> <<>>]

ZeroSpec == ZeroInit /\ [][Next]_vars

(***************************************************************************)
(* One iteration of the loop on its own, from the return of a Fetch that   *)
(* delivered N samples on every channel, N up to MaxBatch: enough samples  *)
(* for the encoded batch to exceed BUFFER_SIZE.                            *)
(***************************************************************************)
BatchSizes == {0, 1, 2, MaxBatch}

FetchedBatch(N) == [c \in Channels |-> [k \in 1..N |-> SampleValue(c, k)]]

BatchInit ==
  /\ script \in Scripts
  /\ ChunkIdle
  /\ pc = "extract"
  /\ DemoMAPort = "object"
  /\ DemoCapture = "object"
  /\ data_socket = (IF script = EdgeRL THEN "connected" ELSE "unconnected")
  /\ weights_socket = "unconnected"
  /\ started = TRUE
  /\ captureState \in {"Running", "Finished"}
  /\ \E N \in BatchSizes :
        /\ produced = N
        /\ fetchedUpTo = [c \in Channels |-> N]
        /\ DemoCaptureResult = FetchedBatch(N)
        /\ fetchLog = << [after |-> "Running", socket |-> data_socket, nonempty |-> N > 0] >>
  /\ rows = <<>>
  /\ capture_count = 0
  /\ sent = <<>>
  /\ raised = "None"
  /\ raisedAt = "none"
  /\ logged = FALSE
  /\ captureDisposeCalls = 0
  /\ maportDisposeCalls = 0
  /\ stateReads = <<"Running", "Running">>
  /\ sentBefore = 0
  /\ raggedSeen = FALSE
  /\ rerun = FALSE
  /\ send_returns = <<>>

BatchNext ==
  \/ Extract
  \/ SendRow
  \/ EndIteration
  \/ ExceptHandler
  \/ FinallyCapture
  \/ FinallyMAPort

BatchSpec == BatchInit /\ [][BatchNext]_vars

(***************************************************************************)
(* The chunked transmitter on its own: any byte string, any buffer size.   *)
(***************************************************************************)
Bytes == {0, 255}

RECURSIVE SeqsUpTo(_, _)
SeqsUpTo(S, n) ==
  IF n = 0 THEN {<<>>}
  ELSE LET shorter == SeqsUpTo(S, n - 1)
       IN  shorter \cup {Append(s, x) : s \in {t \in shorter : Len(t) = n - 1}, x \in S}

\* the 2000-byte payload of the scenario
ScenarioPayload == [k \in 1..2000 |-> k % 256]

ChunkInit ==
  /\ script = EdgeRL
  /\ SessionInit
  /\ chunks = [done |-> FALSE, slices |-> <<>>]
  /\ \/ /\ payload \in SeqsUpTo(Bytes, MaxPayload)
        /\ max_unit \in 1..MaxUnit
     \/ /\ payload = ScenarioPayload
        /\ max_unit = BUFFER_SIZE

\* the if/else of the send code applied to payload
Transmit ==
  /\ ~chunks.done
  /\ chunks' = [done |-> TRUE, slices |-> ChunkSends(payload, max_unit)]
  /\ UNCHANGED <<payload, max_unit, sessionVars>>

ChunkNext == Transmit

ChunkSpec == ChunkInit /\ [][ChunkNext]_vars


(***************************************************************************)
(* Reference definitions used by the properties                            *)
(***************************************************************************)
Ceil(a, m) == (a + m - 1) \div m

RecordSize == NumChannels * 4

\* the integer a group of four little-endian float32 bytes stands for
\* (integers of magnitude below 2^24 only)
Float32Value(q) ==
  LET b1   == q[1]
      b2   == q[2]
      b3   == q[3]
      b4   == q[4]
      sign == b4 \div 128
      E    == (b4 % 128) * 2 + (b3 \div 128)
      mant == (b3 % 128) * 65536 + b2 * 256 + b1
      mag  == IF E = 0 THEN 0 ELSE (Pow2(23) + mant) \div Pow2(23 - (E - 127))
  IN  IF sign = 1 THEN -mag ELSE mag

\* the float32 values of a byte stream whose length is a multiple of four
Decode(stream) ==
  [j \in 1..(Len(stream) \div 4) |-> Float32Value(SubSeq(stream, 4 * j - 3, 4 * j))]

\* channel and tick of a recorded value
ChannelOf(v) == ((v + 1) % NumChannels) + 1

TickOf(v) == ((v + 1) \div NumChannels) + 1

Rectangular(batch) == \A c, d \in Channels : Len(batch[c]) = Len(batch[d])

\* slices sent since the last Fetch returned
BatchSlices == SubSeq(sent, sentBefore + 1, Len(sent))

\* the for loop over the rows of the fetched batch has run to its end
BatchDone == pc = "send" /\ rows = <<>>

C2_BatchBytes ==
  (BatchDone /\ Rectangular(DemoCaptureResult)) =>
    LET N      == Len(DemoCaptureResult[1])
        stream == Flatten(BatchSlices)
    IN  /\ Len(stream) = N * NumChannels * 4
        /\ \A k \in 1..Len(BatchSlices) : Len(BatchSlices[k]) <= BUFFER_SIZE
        /\ Decode(stream) =
             [j \in 1..(N * NumChannels) |->
                DemoCaptureResult[((j - 1) % NumChannels) + 1][((j - 1) \div NumChannels) + 1]]

C2_Witness ==
  /\ BatchDone
  /\ Rectangular(DemoCaptureResult)
  /\ Len(DemoCaptureResult[1]) >= 2
  /\ Len(BatchSlices) >= 2

FetchesAfter(state) == {k \in DOMAIN fetchLog : fetchLog[k].after = state}

(***************************************************************************)
(* C4: once the poll loop has read Finished and left the loop, exactly     *)
(* one further Fetch has been made after that read and the samples it      *)
(* returned were sent, so that every sample produced has reached the       *)
(* socket.                                                                 *)
(***************************************************************************)
C4_DrainFetch ==
  pc = "close" =>
    /\ Cardinality(FetchesAfter("Finished")) = 1
    /\ ~raggedSeen => Len(sent) = produced

(***************************************************************************)
(* C5: on every exit path other than a failing Dispose, the capture and    *)
(* the MAPort are each disposed exactly once if they were created, and     *)
(* never otherwise; no Dispose is called twice or before the finally       *)
(* block.                                                                  *)
(***************************************************************************)
MAPortWasCreated == raisedAt # "create_maport"

CaptureWasCreated == raisedAt \notin {"create_maport", "configure_maport", "create_capture"}

C5_DisposedOnce ==
  /\ captureDisposeCalls <= 1
  /\ maportDisposeCalls <= 1
  /\ pc \notin {"finally_maport", "done"} => captureDisposeCalls = 0
  /\ pc # "done" => maportDisposeCalls = 0
  /\ (pc = "done" /\ raisedAt \notin {"finally_capture", "finally_maport"}) =>
        /\ captureDisposeCalls = IF CaptureWasCreated THEN 1 ELSE 0
        /\ maportDisposeCalls = IF MAPortWasCreated THEN 1 ELSE 0
        /\ DemoCapture = "None"
        /\ DemoMAPort = "None"

C5_Witness ==
  /\ pc = "done"
  /\ raised = "OSError"
  /\ raisedAt = "send"
  /\ sent # <<>>
  /\ captureDisposeCalls = 1
  /\ maportDisposeCalls = 1

(***************************************************************************)
(* C6: in no terminal state of the program is the data socket still open.  *)
(***************************************************************************)
C6_SocketClosed == pc = "done" => data_socket = "closed"

(***************************************************************************)
(* C7: the data socket is connected when Fetch is called, and no send is   *)
(* issued on a socket that has not been connected.                         *)
(***************************************************************************)
C7_ConnectedBeforeFetch ==
  /\ \A k \in DOMAIN fetchLog : fetchLog[k].socket = "connected"
  /\ raisedAt = "send" => data_socket # "unconnected"

(***************************************************************************)
(* C8: after Fetch, extraction, encoding or a send has raised, no further  *)
(* Fetch and no further send is issued, and when the error leaves the      *)
(* program the data socket is closed and the capture and the MAPort are    *)
(* disposed.                                                               *)
(***************************************************************************)
C8_AbortOnError ==
  [][ (raised # "None" /\ raisedAt \in {"fetch", "extract", "send"}) =>
        /\ fetchLog' = fetchLog
        /\ sent' = sent
        /\ pc' = "done" => /\ data_socket' = "closed"
                           /\ captureDisposeCalls' = 1
                           /\ maportDisposeCalls' = 1 ]_vars

C10_Scenario ==
  ( /\ pc = "done"
    /\ raised = "None"
    /\ stateReads = <<"Idle", "Armed", "Running", "Running", "Finished">>
    /\ \A k \in DOMAIN fetchLog : fetchLog[k].nonempty ) =>
      /\ Cardinality(FetchesAfter("Running")) = 2
      /\ Cardinality(FetchesAfter("Finished")) = 1
      /\ captureDisposeCalls = 1
      /\ maportDisposeCalls = 1


(***************************************************************************)
(* C11: no Fetch is called and no send is issued before the capture state  *)
(* has been read as Running at least once.                                 *)
(***************************************************************************)
RunningWasRead == \E k \in DOMAIN stateReads : stateReads[k] = "Running"

C11_NoFetchBeforeRunning ==
  (pc \in {"fetch", "extract", "send"} \/ fetchLog # <<>> \/ sent # <<>>) =>
    /\ RunningWasRead
    /\ \A k \in DOMAIN fetchLog : fetchLog[k].after = "Running"

C11_Witness ==
  /\ fetchLog # <<>>
  /\ sent # <<>>
  /\ stateReads[1] = "Idle"
  /\ RunningWasRead

(***************************************************************************)
(* C12 as stated: whenever the program ends with a TestbenchPortException  *)
(* the except clause has printed its descriptions, and the program does    *)
(* not end normally after such a fault.                                    *)
(***************************************************************************)
C12_AlwaysLogged ==
  pc = "done" =>
    /\ raised = TPE => logged
    /\ logged => raised # "None"

(***************************************************************************)
(* C12 as amended: a TestbenchPortException raised inside the try block    *)
(* is printed by the except clause and then re-raised; one raised by       *)
(* Dispose in the finally block leaves the program at once without being   *)
(* printed; other exceptions are not printed; after a                      *)
(* TestbenchPortException the program never ends normally.                 *)
(***************************************************************************)
InFinally == {"finally_capture", "finally_maport"}

C12_LoggedAndReraised ==
  /\ (raised = TPE /\ raisedAt \notin InFinally /\ pc # "except") => logged
  /\ (raised = TPE /\ raisedAt \in InFinally) => pc = "done"
  /\ (raised \notin {"None", TPE}) => ~logged
  /\ logged => raised = TPE
  /\ (pc = "done" /\ logged) => raised # "None"

C12_Witness ==
  /\ pc = "done"
  /\ raised = TPE
  /\ raisedAt = "fetch"
  /\ logged

(***************************************************************************)
(* C13: for a batch whose channels all hold N values, row assembly yields  *)
(* N rows, row k holding the k-th value of every channel in the order of   *)
(* the channel list configured on the capture.                             *)
(***************************************************************************)
ExampleBatch == << <<1, 2>>, <<3, 4>>, <<5, 6>>, <<7, 8>> >>

ExampleRows == << <<1, 3, 5, 7>>, <<2, 4, 6, 8>> >>

C13_RowAssembly ==
  /\ (pc = "send" /\ Rectangular(DemoCaptureResult)) =>
        LET N    == Len(DemoCaptureResult[1])
            done == Len(BatchSlices)
        IN  /\ done + Len(rows) = N
            /\ \A k \in 1..Len(rows) : \A c \in Channels :
                  /\ rows[k][c] = DemoCaptureResult[c][done + k]
                  /\ ChannelOf(rows[k][c]) = c
  /\ pc = "extract" =>
        /\ ZipRows(ExampleBatch) = ExampleRows
        /\ TransposeRows(ExampleBatch) = ExampleRows

C13_Witness ==
  /\ pc = "send"
  /\ script = Route
  /\ Rectangular(DemoCaptureResult)
  /\ Len(rows) = 2


(***************************************************************************)
(* C14: once the finally block has run to its end, running it a second     *)
(* time calls Dispose on neither the capture nor the MAPort and raises     *)
(* nothing.                                                                *)
(***************************************************************************)
C14_TeardownIdempotent ==
  [][(rerun' /\ raisedAt \notin InFinally) =>
        /\ captureDisposeCalls' = captureDisposeCalls
        /\ maportDisposeCalls' = maportDisposeCalls
        /\ raised' = raised
        /\ raisedAt' = raisedAt
        /\ DemoCapture' = "None"
        /\ DemoMAPort' = "None"]_vars

C14_Witness ==
  /\ rerun
  /\ pc = "done"
  /\ raisedAt \notin InFinally
  /\ captureDisposeCalls = 1
  /\ maportDisposeCalls = 1


(***************************************************************************)
(* C15: a send that fails with a lost connection ends the session: the     *)
(* chunk loop and the fetch loop stop there, nothing more is sent, read or *)
(* fetched, and the finally block disposes the capture and the MAPort.     *)
(***************************************************************************)
SendFailed == raised = "OSError" /\ raisedAt = "send"

C15_SendFailureFatal ==
  [][/\ (raised' = "OSError" /\ raisedAt' = "send") =>
           pc' \in {"finally_capture", "finally_maport", "done"}
     /\ SendFailed =>
           /\ sent' = sent
           /\ rows' = rows
           /\ fetchLog' = fetchLog
           /\ stateReads' = stateReads
           /\ capture_count' = capture_count
     /\ (SendFailed /\ pc' = "done") =>
           /\ captureDisposeCalls' = 1
           /\ raisedAt' = "send" => maportDisposeCalls' = 1]_vars

C15_Witness ==
  /\ pc = "done"
  /\ SendFailed
  /\ data_socket = "connected"
  /\ sent # <<>>
  /\ rows # <<>>
  /\ captureDisposeCalls = 1
  /\ maportDisposeCalls = 1

(***************************************************************************)
(* C16: fetching and sending never overlap and nothing is queued: when the *)
(* capture state is polled and when Fetch is called, no row is waiting and *)
(* every row of the previous batch has been sent.                          *)
(***************************************************************************)
RowsOf(batch) == Min(BatchLengths(batch))

C16_NoOverlap ==
  pc \in {"poll", "fetch"} =>
    /\ rows = <<>>
    /\ Len(BatchSlices) = RowsOf(DemoCaptureResult)

C16_Witness ==
  /\ pc = "fetch"
  /\ capture_count >= 1
  /\ Len(BatchSlices) >= 1
  /\ produced > Len(BatchSlices)

(***************************************************************************)
(* C18: every iteration of the loop calls Fetch exactly once; an empty     *)
(* batch leads to no send in that iteration and the loop goes on to the    *)
(* next poll; the rows of a non-empty batch are all sent within that       *)
(* iteration.                                                              *)
(***************************************************************************)
InLoop == pc \in {"poll", "fetch", "extract", "send"}

FetchedThisIteration == IF pc \in {"extract", "send"} THEN 1 ELSE 0

C18_OneFetchPerIteration ==
  /\ InLoop => Len(fetchLog) = Min({capture_count + FetchedThisIteration, MaxFetches})
  /\ (BatchDone /\ DemoCaptureResult = EmptyBatch) => Len(sent) = sentBefore
  /\ (BatchDone /\ DemoCaptureResult # EmptyBatch) =>
        Len(BatchSlices) = RowsOf(DemoCaptureResult)
  /\ (pc = "poll" /\ capture_count >= 1) =>
        Len(BatchSlices) = RowsOf(DemoCaptureResult)

C18_Witness ==
  /\ pc = "poll"
  /\ capture_count = 2
  /\ DemoCaptureResult = EmptyBatch
  /\ sent # <<>>


(***************************************************************************)
(* C17 as stated: what is chunked is the whole encoded batch: a batch of   *)
(* N samples with N * C * 4 > BUFFER_SIZE is sent in                       *)
(* ceil(N * C * 4 / BUFFER_SIZE) pieces, each of BUFFER_SIZE bytes but     *)
(* the last.                                                               *)
(***************************************************************************)
BatchBytes == Len(DemoCaptureResult[1]) * RecordSize

C17_WholeBatchChunked ==
  (BatchDone /\ Rectangular(DemoCaptureResult) /\ BatchBytes > BUFFER_SIZE) =>
     /\ Len(BatchSlices) = Ceil(BatchBytes, BUFFER_SIZE)
     /\ \A k \in 1..(Len(BatchSlices) - 1) : Len(BatchSlices[k]) = BUFFER_SIZE
     /\ Len(BatchSlices[Len(BatchSlices)]) \in 1..BUFFER_SIZE

(***************************************************************************)
(* C17 as amended: what is chunked is one encoded row: every row of the    *)
(* batch is passed to send on its own, as one slice of C * 4 = 16 bytes,   *)
(* in sample order, so a batch of N samples takes N sends whatever         *)
(* N * C * 4 is.                                                           *)
(***************************************************************************)
C17_RowChunked ==
  (BatchDone /\ Rectangular(DemoCaptureResult)) =>
     /\ Len(BatchSlices) = Len(DemoCaptureResult[1])
     /\ \A k \in 1..Len(BatchSlices) :
           /\ Len(BatchSlices[k]) = RecordSize
           /\ Decode(BatchSlices[k]) = [c \in Channels |-> DemoCaptureResult[c][k]]

C17_Witness ==
  /\ BatchDone
  /\ Rectangular(DemoCaptureResult)
  /\ BatchBytes > BUFFER_SIZE
  /\ Len(BatchSlices) = MaxBatch


C20_ZeroRejected ==
  max_unit = 0 =>
    /\ ~started
    /\ fetchLog = <<>>
    /\ sent = <<>>
    /\ raised # "ZeroDivisionError"


(***************************************************************************)
(* C21: BUFFER_SIZE is floor(1024 / (channels * 4)) * (channels * 4), the  *)
(* largest multiple of the record size not above 1024, so that no slice    *)
(* of a byte string cut at BUFFER_SIZE ends inside a record.               *)
(***************************************************************************)
C21_BufferSizeFormula ==
  max_unit = BUFFER_SIZE =>
    /\ max_unit = (BufferLimit \div RecordSize) * RecordSize
    /\ max_unit % RecordSize = 0
    /\ chunks.done =>
          \A k \in 1..(Len(chunks.slices) - 1) :
             Len(chunks.slices[k]) % RecordSize = 0


(***************************************************************************)
(* C22: the capture and the MAPort are released independently: when        *)
(* Dispose of the capture raises, Dispose of the MAPort is still called,   *)
(* so the program never ends with a MAPort that was created and not        *)
(* disposed.                                                               *)
(***************************************************************************)
C22_IndependentRelease ==
  pc = "done" =>
    /\ raisedAt = "finally_capture" => maportDisposeCalls = 1
    /\ DemoMAPort # "None" => maportDisposeCalls >= 1


(***************************************************************************)
(* C23: no byte is lost when the transport takes only part of a write:     *)
(* the bytes taken by the transport are, in order, exactly the bytes of    *)
(* the encoded rows passed to send.                                        *)
(***************************************************************************)
AcceptedBytes ==
  Flatten([i \in DOMAIN sent |-> SubSeq(sent[i], 1, send_returns[i])])

C23_NoByteLost ==
  /\ Len(send_returns) = Len(sent)
  /\ AcceptedBytes = Flatten(sent)


(***************************************************************************)
(* C24: if the capture reaches Finished and stays there, the fairly        *)
(* scheduled program leaves both polling loops and reaches the finally     *)
(* block, whatever the interleaving of platform and polls, the one where   *)
(* the capture runs and finishes between two passes of the wait loop       *)
(* included.                                                               *)
(***************************************************************************)
InTeardown == pc \in {"finally_capture", "finally_maport", "done"}

C24_Termination == <>[](captureState = "Finished") => <>InTeardown


(***************************************************************************)
(* C25: the two scripts are equivalent on the streaming path: on the same  *)
(* fetched batch either script assembles the rows the other one would      *)
(* (batches of differing channel lengths included), encodes a row to the   *)
(* bytes the other one would, and sends them on a socket in the state the  *)
(* other one has, so that both issue the same sends.                       *)
(***************************************************************************)
OtherScript == IF script = EdgeRL THEN Route ELSE EdgeRL

OtherAssemblyRaises(batch) == OtherScript = Route /\ np_array_raises(batch)

OtherAssembleRows(batch) ==
  IF OtherScript = EdgeRL THEN ZipRows(batch) ELSE TransposeRows(batch)

OtherEncodeRow(row) == IF OtherScript = EdgeRL THEN join_pack(row) ELSE tobytes(row)

C25_ScriptsEquivalent ==
  /\ pc = "extract" =>
        /\ AssemblyRaises(DemoCaptureResult) = OtherAssemblyRaises(DemoCaptureResult)
        /\ ~np_array_raises(DemoCaptureResult) =>
              AssembleRows(DemoCaptureResult) = OtherAssembleRows(DemoCaptureResult)
  /\ (pc = "send" /\ rows # <<>>) =>
        /\ EncodeRow(Head(rows)) = OtherEncodeRow(Head(rows))
        /\ data_socket = "connected"

====
